---- MODULE Spec2Model ----
(***************************************************************************)
(* Model of the asignaturas CRUD service (api/index.js): an Express app    *)
(* over a key-value store with a secondary index set.  Every handler is    *)
(* cut at its awaits: one action per store round trip, together with the   *)
(* synchronous code that follows it up to the next await or the response.  *)
(***************************************************************************)
EXTENDS Integers, Sequences, FiniteSets, TLC

\* ------------------------------------------------------------------ bounds
NumProcs == 2      \* request slots that may be in flight at the same time
MaxIds == 2        \* how many ids nanoid() hands out in one behaviour

Procs == 1..NumProcs

\* ------------------------------------------------------------ JS values
\* A JSON/JS value: t is the type tag, n the number, s the string (a
\* sequence of pieces, a piece being one character wherever the code looks
\* into the string), a the array (of strings).
Val(t, n, s, a) == [t |-> t, n |-> n, s |-> s, a |-> a]
Num(n) == Val("num", n, <<>>, <<>>)
Str(s) == Val("str", 0, s, <<>>)
Arr(a) == Val("arr", 0, <<>>, a)
Null == Val("null", 0, <<>>, <<>>)
NaN == Val("nan", 0, <<>>, <<>>)
Undefined == Val("undefined", 0, <<>>, <<>>)

\* What kv.mget / kv.get give for a key without a value (JS null).
NullRec == [null |-> TRUE]

\* const { carrera, ... } = req.body: a property the body lacks is undefined.
Field(body, f) == IF f \in DOMAIN body THEN body[f] ELSE Undefined

\* JS truthiness, as the operators ! and || see a value.
Truthy(v) ==
  CASE v.t = "undefined" -> FALSE
    [] v.t = "null" -> FALSE
    [] v.t = "nan" -> FALSE
    [] v.t = "num" -> v.n # 0
    [] v.t = "str" -> v.s # <<>>
    [] OTHER -> TRUE

Digits == <<"0", "1", "2", "3", "4", "5", "6", "7", "8", "9">>
IsDigit(c) == \E d \in 1..10 : Digits[d] = c
DigitVal(c) == (CHOOSE d \in 1..10 : Digits[d] = c) - 1

RECURSIVE ParseDigits(_, _, _)
ParseDigits(s, i, acc) ==
  IF i > Len(s) \/ ~IsDigit(s[i]) THEN acc
  ELSE ParseDigits(s, i + 1, 10 * acc + DigitVal(s[i]))

\* parseInt(x): a number that is an integer comes back as itself; a string
\* is read as an optional sign and its longest prefix of decimal digits,
\* NaN when there is none; anything else has no digits.
ParseInt(v) ==
  CASE v.t = "num" -> v
    [] v.t = "str" ->
         LET neg == v.s # <<>> /\ v.s[1] = "-"
             from == IF v.s # <<>> /\ v.s[1] \in {"-", "+"} THEN 2 ELSE 1
         IN IF from > Len(v.s) \/ ~IsDigit(v.s[from]) THEN NaN
            ELSE IF neg THEN Num(0 - ParseDigits(v.s, from, 0))
            ELSE Num(ParseDigits(v.s, from, 0))
    [] OTHER -> NaN

\* JSON.stringify followed by JSON.parse of an object: NaN becomes null,
\* an undefined property disappears.
ToJSON(rec) ==
  LET kept == {f \in DOMAIN rec : rec[f].t # "undefined"}
  IN [f \in kept |-> IF rec[f].t = "nan" THEN Null ELSE rec[f]]

MergeReplace(a, b) == b

\* { ...a, ...b }
Merge(a, b) ==
  [f \in DOMAIN a \cup DOMAIN b |-> IF f \in DOMAIN b THEN b[f] ELSE a[f]]

\* ----------------------------------------------------------- constants
ASIGNATURA_PREFIX == <<"asignatura:">>

\* `${cod}` of a string is the string (every cod the callers send is one).
TemplateStr(v) == v.s

\* `${ASIGNATURA_PREFIX}${cod}`
Key(cod) == ASIGNATURA_PREFIX \o cod

\* nanoid(): the n-th id handed out; ids never repeat.
IdOf(n) == Str(<<"id", Digits[n + 1]>>)

\* ------------------------------------------------------------- inputs
Cods == {<<"A">>, <<"B">>}
Required == {"carrera", "sem", "cod", "asig", "uc"}

Base(c) ==
  [carrera |-> Str(<<"CS">>), sem |-> Num(3), cod |-> Str(c),
   asig |-> Str(<<"T">>), uc |-> Num(4)]

Without(b, f) == [g \in DOMAIN b \ {f} |-> b[g]]
With(b, f, v) == Merge(b, [g \in {f} |-> v])

\* Bodies that pass line 21's test.
GoodBodies ==
  {Base(c) : c \in Cods}
  \cup {With(Base(<<"A">>), "requisitos", Arr(<<"B">>)),
        With(Base(<<"A">>), "requisitos", Null),
        With(Base(<<"A">>), "sem", Str(<<"3">>)),
        With(Base(<<"A">>), "sem", Str(<<"x">>))}

\* Bodies that do not: a field missing, null, 0 or the empty string.
BadBodies ==
  {Without(Base(<<"A">>), f) : f \in Required}
  \cup {With(Base(<<"A">>), "sem", Num(0)),
        With(Base(<<"A">>), "uc", Num(0)),
        With(Base(<<"A">>), "asig", Null),
        With(Base(<<"A">>), "carrera", Str(<<>>)),
        Base(<<>>)}

CreateBodies == GoodBodies \cup BadBodies

UpdateBodies ==
  {<<>>,
   [uc |-> Num(5)],
   [cod |-> Str(<<"B">>)],
   [id |-> Str(<<"x">>)]}

\* The bodies sent by callers whose requests overlap.
RaceCreateBodies == {Base(c) : c \in Cods} \cup {Without(Base(<<"A">>), "uc")}
RaceUpdateBodies == {[uc |-> Num(5)]}

\* -------------------------------------------------------------- state
VARIABLES
  store,    \* the Record Store: key -> stored object, for the keys that exist
  index,    \* the Index Set kept under ASIGNATURAS_INDEX_KEY
  pc,       \* where each request slot's handler stands
  req,      \* the request each slot is serving
  loc,      \* the handler's locals: key, keys, the record it holds
  nextId,   \* how many ids nanoid() has handed out
  last,     \* the request answered most recently, with its response
  prev,     \* the request answered before that one, with its response
  live,     \* the cods created with 201 and not deleted with 204 since
  serial,   \* whether callers send a request only once the last is answered
  twin,     \* whether they send each request to the scan-based service too
  scanStore, \* the store of the scan-based service, fed the same requests
  scanLast   \* the scan-based service's response to the latest request

vars == <<store, index, pc, req, loc, nextId, last, prev, live, serial,
         twin, scanStore, scanLast>>

NoReq == [op |-> "none", cod |-> <<>>, body |-> <<>>]
NoLoc == [key |-> <<>>, keys |-> <<>>, rec |-> NullRec]
ErrBody == [error |-> TRUE]     \* { error: '...' }
NoBody == <<>>                  \* send() without a body
ListBody(l) == [list |-> l]     \* json(array)
NoLast == [op |-> "none", cod |-> <<>>, reqBody |-> <<>>, status |-> 0,
           body |-> <<>>, keys |-> <<>>]
NoPrev == [op |-> "none", cod |-> <<>>, status |-> 0]
NoScanLast == [status |-> 0, body |-> <<>>]

InitAs(s, t) ==
  /\ serial = s
  /\ twin = t
  /\ store = <<>>
  /\ index = {}
  /\ pc = [p \in Procs |-> "idle"]
  /\ req = [p \in Procs |-> NoReq]
  /\ loc = [p \in Procs |-> NoLoc]
  /\ nextId = 0
  /\ last = NoLast
  /\ prev = NoPrev
  /\ live = {}
  /\ scanStore = <<>>
  /\ scanLast = NoScanLast

\* Callers overlap their requests.
Init == InitAs(FALSE, FALSE)

\* Callers send one request at a time.
SeqInit == InitAs(TRUE, FALSE)

\* Callers send one request at a time, to both services.
TwinInit == InitAs(TRUE, TRUE)

\* ---------------------------------------------------------- store calls
KvExistsNever(st, key) == FALSE
KvExists(st, key) == key \in DOMAIN st
KvGetMiss(st, key) == NullRec
KvGet(st, key) == IF key \in DOMAIN st THEN st[key] ELSE NullRec
KvSetDropped(st, key, rec) == st
KvSet(st, key, rec) ==
  [k \in DOMAIN st \cup {key} |-> IF k = key THEN ToJSON(rec) ELSE st[k]]
KvDelNothing(st, key) == st
KvDel(st, key) == [k \in DOMAIN st \ {key} |-> st[k]]
KvDelCountOne(st, key) == 1
KvDelCountZero(st, key) == 0
KvDelCount(st, key) == IF key \in DOMAIN st THEN 1 ELSE 0
KvMgetDropMissing(st, keys) ==
  LET present == SelectSeq(keys, LAMBDA k : k \in DOMAIN st)
  IN [i \in 1..Len(present) |-> st[present[i]]]
KvMget(st, keys) == [i \in 1..Len(keys) |-> KvGet(st, keys[i])]
SaddSkipped(idx, key) == idx
Sadd(idx, key) == idx \cup {key}
SremSkipped(idx, key) == idx
Srem(idx, key) == idx \ {key}

\* smembers answers with the members in an order of the store's choosing.
Orders(S) ==
  {q \in [1..Cardinality(S) -> S] : \A k \in S : \E i \in DOMAIN q : q[i] = k}

\* ------------------------------------------- building the record
CreateValidNoUc(b) ==
  /\ Truthy(Field(b, "carrera"))
  /\ Truthy(Field(b, "sem"))
  /\ Truthy(Field(b, "cod"))
  /\ Truthy(Field(b, "asig"))

\* The negation of line 21's test.
CreateValid(b) ==
  /\ Truthy(Field(b, "carrera"))
  /\ Truthy(Field(b, "sem"))
  /\ Truthy(Field(b, "cod"))
  /\ Truthy(Field(b, "asig"))
  /\ Truthy(Field(b, "uc"))

NewAsignatura(b, id) ==
  [id |-> id,
   carrera |-> Field(b, "carrera"),
   sem |-> ParseInt(Field(b, "sem")),
   cod |-> Field(b, "cod"),
   asig |-> Field(b, "asig"),
   uc |-> ParseInt(Field(b, "uc")),
   requisitos |-> IF Truthy(Field(b, "requisitos"))
                  THEN Field(b, "requisitos") ELSE Arr(<<>>)]

\* ------------------------------------- the earlier, scan-based service
\* Its handlers, each run alone from arrival to response on its own store
\* st (it keeps no index).  A handler yields the store it leaves and its
\* response.
ScanOut(st, status, body) == [store |-> st, status |-> status, body |-> body]

\* POST /asignaturas; id is what nanoid() hands out.
ScanCreate(st, b, id) ==
  LET key == Key(TemplateStr(Field(b, "cod")))
      newAsignatura == NewAsignatura(b, id)
  IN IF ~CreateValid(b) THEN ScanOut(st, 400, ErrBody)
     ELSE IF KvExists(st, key) THEN ScanOut(st, 409, ErrBody)
     ELSE ScanOut(KvSet(st, key, newAsignatura), 201, ToJSON(newAsignatura))

\* GET /asignaturas; keys is what the scan of KEY_PREFIX* collected.
ScanList(st, keys) ==
  IF Len(keys) = 0 THEN ScanOut(st, 200, ListBody(<<>>))
  ELSE ScanOut(st, 200, ListBody(KvMget(st, keys)))

\* GET /asignaturas/:cod
ScanGetOne(st, cod) ==
  LET asignatura == KvGet(st, Key(cod))
  IN IF asignatura = NullRec THEN ScanOut(st, 404, ErrBody)
     ELSE ScanOut(st, 200, asignatura)

\* PUT /asignaturas/:cod
ScanUpdate(st, cod, b) ==
  LET existingAsignatura == KvGet(st, Key(cod))
      updatedAsignatura == Merge(existingAsignatura, b)
  IN IF existingAsignatura = NullRec THEN ScanOut(st, 404, ErrBody)
     ELSE ScanOut(KvSet(st, Key(cod), updatedAsignatura), 200,
                  ToJSON(updatedAsignatura))

ScanDeleteAlways204(st, cod) == ScanOut(KvDel(st, Key(cod)), 204, NoBody)

\* DELETE /asignaturas/:cod
ScanDelete(st, cod) ==
  LET result == KvDelCount(st, Key(cod))
  IN IF result = 0 THEN ScanOut(KvDel(st, Key(cod)), 404, ErrBody)
     ELSE ScanOut(KvDel(st, Key(cod)), 204, NoBody)

\* The scan iterator yields the keys that match KEY_PREFIX* (every key of
\* this store does) in an order of the store's choosing.
ScanKeys(st) == Orders(DOMAIN st)

ScanServe(st, r, id, keys) ==
  CASE r.op = "Create" -> ScanCreate(st, r.body, id)
    [] r.op = "ListAll" -> ScanList(st, keys)
    [] r.op = "GetOne" -> ScanGetOne(st, r.cod)
    [] r.op = "Update" -> ScanUpdate(st, r.cod, r.body)
    [] r.op = "Delete" -> ScanDelete(st, r.cod)

\* --------------------------------------------------------- bookkeeping
Free(p) == pc[p] = "idle"
InFlight(op) == Cardinality({p \in Procs : ~Free(p) /\ req[p].op = op})

AllFree == \A q \in Procs : Free(q)

\* Slot p may take a request: an arriving request is served in the first
\* free slot (the slots are alike), and one-at-a-time callers wait until no
\* request is in flight.
CanStart(p) ==
  /\ Free(p)
  /\ \A q \in Procs : q < p => ~Free(q)
  /\ serial => AllFree

\* A step that answers nothing.  The answers of one-at-a-time callers are
\* remembered across it (the last two, or the last one of each service
\* when the two services are compared); with overlapping callers last is
\* the answer of the latest step only.
Quiet ==
  /\ last' = IF serial THEN last ELSE NoLast
  /\ prev' = IF serial /\ ~twin THEN prev ELSE NoPrev
  /\ UNCHANGED <<serial, twin, scanStore, scanLast>>

\* The slot takes a request and runs up to its first await.
Accept(p, r, key, at) ==
  /\ req' = [req EXCEPT ![p] = r]
  /\ loc' = [loc EXCEPT ![p] = [NoLoc EXCEPT !.key = key]]
  /\ pc' = [pc EXCEPT ![p] = at]
  /\ Quiet
  /\ UNCHANGED <<store, index, nextId, live>>

\* The callers that compare the two services send each request to the
\* scan-based service too, which serves it on its own store, with the id
\* nanoid() handed out for this request when it handed one out, the next
\* one otherwise.
ScanAnswers(p, r) ==
  IF twin
  THEN LET id == IF loc[p].rec # NullRec THEN loc[p].rec.id
                 ELSE IdOf(nextId)
       IN \E keys \in (IF r.op = "ListAll" THEN ScanKeys(scanStore)
                       ELSE {<<>>}) :
            \E out \in {ScanServe(scanStore, r, id, keys)} :
              /\ scanStore' = out.store
              /\ scanLast' = [status |-> out.status, body |-> out.body]
  ELSE UNCHANGED <<scanStore, scanLast>>

\* The handler sends its response and ends: the slot is free again.
Respond(p, r, status, body, keys) ==
  /\ pc' = [pc EXCEPT ![p] = "idle"]
  /\ req' = [req EXCEPT ![p] = NoReq]
  /\ loc' = [loc EXCEPT ![p] = NoLoc]
  /\ last' = [op |-> r.op, cod |-> r.cod, reqBody |-> r.body,
              status |-> status, body |-> body, keys |-> keys]
  /\ prev' = IF serial /\ ~twin
             THEN [op |-> last.op, cod |-> last.cod, status |-> last.status]
             ELSE NoPrev
  /\ ScanAnswers(p, r)
  /\ UNCHANGED <<serial, twin>>

\* ------------------------------------------------- POST /asignaturas
\* The request arrives; the body is validated; kv.exists is issued.
CreateStart(p, bodies) ==
  /\ CanStart(p)
  /\ nextId + InFlight("Create") < MaxIds
  /\ \E b \in bodies :
       LET r == [op |-> "Create", cod |-> TemplateStr(Field(b, "cod")),
                 body |-> b]
       IN IF CreateValid(b)
          THEN Accept(p, r, Key(r.cod), "exists")
          ELSE /\ Respond(p, r, 400, ErrBody, <<>>)
               /\ UNCHANGED <<store, index, nextId, live>>

CreateExistsReserves(p) ==
  /\ pc[p] = "exists"
  /\ IF \/ KvExists(store, loc[p].key)
        \/ \E q \in Procs : q # p /\ pc[q] = "exec" /\ loc[q].key = loc[p].key
     THEN /\ Respond(p, req[p], 409, ErrBody, <<>>)
          /\ UNCHANGED <<store, index, nextId, live>>
     ELSE /\ loc' = [loc EXCEPT ![p].rec =
                       NewAsignatura(req[p].body, IdOf(nextId))]
          /\ nextId' = nextId + 1
          /\ pc' = [pc EXCEPT ![p] = "exec"]
          /\ Quiet
          /\ UNCHANGED <<store, index, req, live>>

\* kv.exists answers: 409, or the record is built and the multi is issued.
CreateExists(p) ==
  /\ pc[p] = "exists"
  /\ IF KvExists(store, loc[p].key)
     THEN /\ Respond(p, req[p], 409, ErrBody, <<>>)
          /\ UNCHANGED <<store, index, nextId, live>>
     ELSE /\ loc' = [loc EXCEPT ![p].rec =
                       NewAsignatura(req[p].body, IdOf(nextId))]
          /\ nextId' = nextId + 1
          /\ pc' = [pc EXCEPT ![p] = "exec"]
          /\ Quiet
          /\ UNCHANGED <<store, index, req, live>>

\* multi.exec runs set and sadd as one unit; 201 with the record.
CreateExec(p) ==
  /\ pc[p] = "exec"
  /\ store' = KvSet(store, loc[p].key, loc[p].rec)
  /\ index' = Sadd(index, loc[p].key)
  /\ Respond(p, req[p], 201, ToJSON(loc[p].rec), <<>>)
  /\ live' = live \cup {req[p].cod}
  /\ UNCHANGED nextId

\* -------------------------------------------------- GET /asignaturas
ListStart(p) ==
  /\ CanStart(p)
  /\ Accept(p, [op |-> "ListAll", cod |-> <<>>, body |-> <<>>], <<>>,
            "smembers")

\* kv.smembers answers: 200 [] when empty, otherwise kv.mget is issued.
ListSmembers(p) ==
  /\ pc[p] = "smembers"
  /\ \E keys \in Orders(index) :
       IF Len(keys) = 0
       THEN /\ Respond(p, req[p], 200, ListBody(<<>>), <<>>)
            /\ UNCHANGED <<store, index, nextId, live>>
       ELSE /\ loc' = [loc EXCEPT ![p].keys = keys]
            /\ pc' = [pc EXCEPT ![p] = "mget"]
            /\ Quiet
            /\ UNCHANGED <<store, index, req, nextId, live>>

\* kv.mget answers: 200 with one entry per key.
ListMget(p) ==
  /\ pc[p] = "mget"
  /\ Respond(p, req[p], 200, ListBody(KvMget(store, loc[p].keys)),
             loc[p].keys)
  /\ UNCHANGED <<store, index, nextId, live>>

\* --------------------------------------------- GET /asignaturas/:cod
GetOneStart(p) ==
  /\ CanStart(p)
  /\ \E c \in Cods :
       Accept(p, [op |-> "GetOne", cod |-> c, body |-> <<>>], Key(c), "get")

GetOneGetViaIndex(p) ==
  /\ pc[p] = "get"
  /\ LET asignatura == IF loc[p].key \in index
                       THEN KvGet(store, loc[p].key) ELSE NullRec
     IN IF asignatura = NullRec
        THEN Respond(p, req[p], 404, ErrBody, <<>>)
        ELSE Respond(p, req[p], 200, asignatura, <<>>)
  /\ UNCHANGED <<store, index, nextId, live>>

GetOneGet(p) ==
  /\ pc[p] = "get"
  /\ LET asignatura == KvGet(store, loc[p].key)
     IN IF asignatura = NullRec
        THEN Respond(p, req[p], 404, ErrBody, <<>>)
        ELSE Respond(p, req[p], 200, asignatura, <<>>)
  /\ UNCHANGED <<store, index, nextId, live>>

\* --------------------------------------------- PUT /asignaturas/:cod
UpdateStart(p, bodies) ==
  /\ CanStart(p)
  /\ \E c \in Cods, b \in bodies :
       Accept(p, [op |-> "Update", cod |-> c, body |-> b], Key(c),
              "put_get")

\* kv.get answers: 404, or the merge is built and kv.set is issued.
UpdateGet(p) ==
  /\ pc[p] = "put_get"
  /\ LET existingAsignatura == KvGet(store, loc[p].key)
     IN IF existingAsignatura = NullRec
        THEN /\ Respond(p, req[p], 404, ErrBody, <<>>)
             /\ UNCHANGED <<store, index, nextId, live>>
        ELSE /\ loc' = [loc EXCEPT ![p].rec =
                          Merge(existingAsignatura, req[p].body)]
             /\ pc' = [pc EXCEPT ![p] = "put_set"]
             /\ Quiet
             /\ UNCHANGED <<store, index, req, nextId, live>>

\* kv.set is applied: 200 with the merged record.
UpdateSet(p) ==
  /\ pc[p] = "put_set"
  /\ store' = KvSet(store, loc[p].key, loc[p].rec)
  /\ Respond(p, req[p], 200, ToJSON(loc[p].rec), <<>>)
  /\ UNCHANGED <<index, nextId, live>>

\* ------------------------------------------ DELETE /asignaturas/:cod
DeleteStart(p) ==
  /\ CanStart(p)
  /\ \E c \in Cods :
       Accept(p, [op |-> "Delete", cod |-> c, body |-> <<>>], Key(c),
              "del_exec")

\* multi.exec runs del and srem as one unit; 404 when del removed nothing.
DeleteExec(p) ==
  /\ pc[p] = "del_exec"
  /\ LET delResult == KvDelCount(store, loc[p].key)
     IN /\ store' = KvDel(store, loc[p].key)
        /\ index' = Srem(index, loc[p].key)
        /\ IF delResult = 0
           THEN /\ Respond(p, req[p], 404, ErrBody, <<>>)
                /\ live' = live
           ELSE /\ Respond(p, req[p], 204, NoBody, <<>>)
                /\ live' = live \ {req[p].cod}
  /\ UNCHANGED nextId

\* ------------------------------------------------------ specifications
Starts(p, creates, updates) ==
  \/ CreateStart(p, creates)
  \/ ListStart(p)
  \/ GetOneStart(p)
  \/ UpdateStart(p, updates)
  \/ DeleteStart(p)

Steps(p) ==
  \/ CreateExists(p)
  \/ CreateExec(p)
  \/ ListSmembers(p)
  \/ ListMget(p)
  \/ GetOneGet(p)
  \/ UpdateGet(p)
  \/ UpdateSet(p)
  \/ DeleteExec(p)

\* Requests of different callers overlap: any slot may take any step.
Next ==
  \E p \in Procs : Starts(p, RaceCreateBodies, RaceUpdateBodies) \/ Steps(p)

Spec == Init /\ [][Next]_vars

\* Requests one at a time: a request starts only when none is in flight.
SeqNext ==
  \E p \in Procs : Starts(p, CreateBodies, UpdateBodies) \/ Steps(p)

SeqSpec == SeqInit /\ [][SeqNext]_vars

\* Requests one at a time, served by both services side by side.
TwinSpec == TwinInit /\ [][SeqNext]_vars

\* multi.exec rejects (the store or the way to it failed).  The batch is one
\* unit: it was applied whole before the answer was lost, or not at all.
\* Line 46 has no try/catch, so line 48 is never reached and the handler
\* sends nothing; what the caller then gets depends on what runs the
\* handler: no response (status 0 here) or the runtime's own error
\* response (500).
CreateExecFails(p) ==
  /\ pc[p] = "exec"
  /\ \E applied \in BOOLEAN :
       IF applied
       THEN /\ store' = KvSet(store, loc[p].key, loc[p].rec)
            /\ index' = Sadd(index, loc[p].key)
            /\ live' = live \cup {req[p].cod}
       ELSE UNCHANGED <<store, index, live>>
  /\ \E status \in {0, 500} : Respond(p, req[p], status, ErrBody, <<>>)
  /\ UNCHANGED nextId

\* Overlapping requests against a store whose multi.exec may fail.
FaultNext ==
  \/ Next
  \/ \E p \in Procs : CreateExecFails(p)

FaultSpec == Init /\ [][FaultNext]_vars

TypeOK ==
  /\ index \subseteq {Key(c) : c \in Cods}
  /\ DOMAIN store \subseteq {Key(c) : c \in Cods}
  /\ nextId \in 0..MaxIds
  /\ pc \in [Procs -> {"idle", "exists", "exec", "smembers", "mget", "get",
                       "put_get", "put_set", "del_exec"}]

\* =================================================================== claims

\* C1: with requests executed one at a time from empty stores, whenever no
\* request is in flight a key is in the Index Set if and only if the Record
\* Store holds a record under it.
C1_IndexMatchesStoreSequential == AllFree => index = DOMAIN store

\* A Create and a Delete have both succeeded and a record is left.
C1_Witness ==
  /\ AllFree
  /\ last.op = "Delete" /\ last.status = 204
  /\ index # {} /\ index = DOMAIN store

\* C2: with overlapping requests, whenever no request is in flight the Index
\* Set holds exactly the keys that have a record in the Record Store.
C2_IndexMatchesStoreConcurrent == AllFree => index = DOMAIN store

\* C3: when Create's existence check finds a record under the key, Create
\* answers 409 and writes nothing: both stores are as before the call.
C3_ConflictWritesNothing ==
  [][\A p \in Procs :
       (pc[p] = "exists" /\ pc'[p] # "exists" /\ loc[p].key \in DOMAIN store)
       => /\ pc'[p] = "idle"
          /\ last'.op = "Create" /\ last'.status = 409
          /\ last'.cod = req[p].cod
          /\ store' = store
          /\ index' = index]_vars

\* A Create was answered 409 and the record it collided with is stored.
C3_Witness ==
  /\ last.op = "Create" /\ last.status = 409
  /\ Key(last.cod) \in DOMAIN store

\* A response is sent in this step.
Answered == last' # last \/ prev' # prev

\* C4: with requests one at a time, a GetOne answered right after a
\* successful Create of the same code returns 200 with a record equal to the
\* one Create returned, id and every field.
C4_CreateThenGetOneRoundTrip ==
  [][(/\ last.op = "Create" /\ last.status = 201
      /\ last'.op = "GetOne" /\ last'.cod = last.cod)
     => (last'.status = 200 /\ last'.body = last.body)]_vars

\* A GetOne was answered 200 right after the Create of its code.
C4_Witness ==
  /\ prev.op = "Create" /\ prev.status = 201
  /\ last.op = "GetOne" /\ last.cod = prev.cod /\ last.status = 200
  /\ last.body.sem = Null

\* C5: with requests one at a time, an Update of an existing record stores
\* and returns a record that has the supplied value in every field of the
\* body and the pre-update value in every other field, and changes no other
\* record of the Record Store.
C5_UpdateMergesFields ==
  [][\A p \in Procs :
       (pc[p] = "put_set" /\ pc'[p] = "idle")
       => LET k == loc[p].key
              b == req[p].body
          IN /\ k \in DOMAIN store
             /\ DOMAIN store' = DOMAIN store
             /\ last'.status = 200
             /\ last'.body = store'[k]
             /\ DOMAIN store'[k] = DOMAIN store[k] \cup DOMAIN b
             /\ \A f \in DOMAIN store'[k] :
                  store'[k][f] = IF f \in DOMAIN b THEN b[f] ELSE store[k][f]
             /\ \A k2 \in DOMAIN store \ {k} : store'[k2] = store[k2]]_vars

\* An Update of uc alone was answered: uc is the new value, asig the old.
C5_Witness ==
  /\ last.op = "Update" /\ last.status = 200
  /\ last.reqBody = [uc |-> Num(5)]
  /\ last.body.uc = Num(5)
  /\ last.body.asig = Str(<<"T">>)
  /\ Cardinality(DOMAIN store) = 2

\* C6: with requests one at a time, right after a Delete answered 204 a
\* GetOne of that code is answered 404 and a ListAll returns nothing read
\* from that code's key; the Delete itself leaves every other record and
\* index entry as it was.
C6_DeletedIsGone ==
  /\ [](/\ prev.op = "Delete" /\ prev.status = 204
        => /\ (last.op = "GetOne" /\ last.cod = prev.cod)
                => last.status = 404
           /\ last.op = "ListAll"
                => /\ \A i \in DOMAIN last.keys : last.keys[i] # Key(prev.cod)
                   /\ Len(last.body.list) = Len(last.keys)
                   /\ \A i \in DOMAIN last.keys :
                        last.body.list[i] # NullRec)
  /\ [][\A p \in Procs :
          (pc[p] = "del_exec" /\ pc'[p] = "idle" /\ last'.status = 204)
          => LET k == loc[p].key
             IN /\ k \notin DOMAIN store'
                /\ k \notin index'
                /\ DOMAIN store' = DOMAIN store \ {k}
                /\ \A k2 \in DOMAIN store' : store'[k2] = store[k2]
                /\ index' = index \ {k}]_vars

\* A GetOne was answered 404 right after the Delete of its code, while
\* another record is still stored.
C6_Witness ==
  /\ prev.op = "Delete" /\ prev.status = 204
  /\ last.op = "GetOne" /\ last.cod = prev.cod /\ last.status = 404
  /\ DOMAIN store # {}

\* C7: a Delete, Update or GetOne whose store call finds no record under the
\* key is answered 404 and leaves the Record Store and the Index Set as
\* they were (so a second Delete of a code changes nothing).
C7_NotFoundChangesNothing ==
  [][\A p \in Procs :
       (/\ pc[p] \in {"del_exec", "put_get", "get"}
        /\ pc'[p] # pc[p]
        /\ loc[p].key \notin DOMAIN store)
       => /\ pc'[p] = "idle"
          /\ last'.status = 404
          /\ last'.op = req[p].op /\ last'.cod = req[p].cod
          /\ store' = store
          /\ index' = index]_vars

\* A Delete of a code without a record was answered 404 while another
\* record is stored and indexed.
C7_Witness ==
  /\ last.op = "Delete" /\ last.status = 404
  /\ Key(last.cod) \notin DOMAIN store
  /\ index # {}

\* C8: with requests one at a time, ListAll returns exactly the current
\* records: one entry per code created and not since deleted, each the
\* record GetOne returns for that code, none missing, extra or repeated.
C8_ListAllReturnsCurrentRecords ==
  last.op = "ListAll"
  => /\ last.status = 200
     /\ Len(last.body.list) = Cardinality(live)
     /\ Len(last.keys) = Len(last.body.list)
     /\ {last.keys[i] : i \in DOMAIN last.keys} = {Key(c) : c \in live}
     /\ \A i \in DOMAIN last.keys :
          /\ last.body.list[i] # NullRec
          /\ last.keys[i] \in DOMAIN store
          /\ last.body.list[i] = store[last.keys[i]]

\* A ListAll returned one record after two were created and one deleted.
C8_Witness ==
  /\ last.op = "ListAll" /\ Len(last.body.list) = 1
  /\ prev.op = "Delete" /\ prev.status = 204
  /\ nextId = 2

\* C9: a Create whose body lacks one of carrera, sem, cod, asig, uc is
\* answered 400 and changes neither the Record Store nor the Index Set.
C9_MissingFieldRejected ==
  [][(/\ Answered
      /\ last'.op = "Create"
      /\ \E f \in Required : f \notin DOMAIN last'.reqBody)
     => (last'.status = 400 /\ store' = store /\ index' = index)]_vars

\* A Create without uc was answered 400 while a record is stored.
C9_Witness ==
  /\ last.op = "Create" /\ last.status = 400
  /\ "uc" \notin DOMAIN last.reqBody
  /\ DOMAIN store # {}

\* The five required fields are present: strings (read here as non-empty
\* ones, the reading kindest to the code) and integers.
WellFormed(b) ==
  /\ Required \subseteq DOMAIN b
  /\ \A f \in {"carrera", "cod", "asig"} : b[f].t = "str" /\ b[f].s # <<>>
  /\ \A f \in {"sem", "uc"} : b[f].t = "num"

\* C10: with requests one at a time, a Create whose five required fields
\* are present (any strings, any integers, 0 included) and whose code has no
\* record is answered 201 with a record that has a non-empty id, the
\* supplied values and requisitos [] when none were supplied; the record is
\* then stored under prefix+code and the key is in the Index Set.
C10_WellFormedCreateSucceeds ==
  [][(/\ Answered
      /\ last'.op = "Create"
      /\ WellFormed(last'.reqBody)
      /\ Key(last'.cod) \notin DOMAIN store)
     => /\ last'.status = 201
        /\ last'.body.id.t = "str" /\ last'.body.id.s # <<>>
        /\ \A f \in Required : last'.body[f] = last'.reqBody[f]
        /\ "requisitos" \notin DOMAIN last'.reqBody
             => last'.body.requisitos = Arr(<<>>)
        /\ Key(last'.cod) \in DOMAIN store'
        /\ store'[Key(last'.cod)] = last'.body
        /\ Key(last'.cod) \in index']_vars

\* C11: with requests one at a time, a record that stays under its key
\* through a step keeps its id: no Create, Update (whatever fields its body
\* carries), Delete, GetOne or ListAll changes the id of a stored record.
C11_IdFixedAtCreation ==
  [][\A k \in DOMAIN store \cap DOMAIN store' : store'[k].id = store[k].id]_vars

\* C12: with requests one at a time, no two records of the Record Store
\* carry the same value in their cod field.
C12_CodesUnique ==
  \A k1, k2 \in DOMAIN store : store[k1].cod = store[k2].cod => k1 = k2

\* C13: when Create's multi ends, either the record write and the index add
\* were both applied or neither was; 201 is answered only if both were
\* applied; and a multi that failed is answered with a failure status,
\* never with 201 and never with no response at all.
C13_CreateWriteIsOneUnitAndFailureIsReported ==
  [][\A p \in Procs :
       (pc[p] = "exec" /\ pc'[p] = "idle")
       => LET k == loc[p].key
              both == /\ k \in DOMAIN store' /\ store'[k] = loc[p].rec
                      /\ index' = index \cup {k}
              none == store' = store /\ index' = index
          IN /\ both \/ none
             /\ last'.status = 201 => both
             /\ last'.status # 201 => last'.status \in 400..599]_vars

\* C14: no step of an Update changes the Index Set or the set of keys of
\* the Record Store; its write lands under prefix + the code of the request
\* path, whatever cod the body carries.
C14_UpdateKeepsKeysAndIndex ==
  [][\A p \in Procs :
       (req[p].op = "Update" /\ pc'[p] # pc[p])
       => /\ index' = index
          /\ DOMAIN store' = DOMAIN store
          /\ loc[p].key = Key(req[p].cod)
          /\ \A k \in DOMAIN store \ {loc[p].key} : store'[k] = store[k]]_vars

\* C15: ListAll answers one entry per key it read from the Index Set.  When
\* smembers finds the index empty the answer is 200 [] at once and no
\* Record Store read is issued; otherwise mget is issued for exactly the
\* members read, and its answer has, position by position, the record
\* stored under the key at that moment or null when there is none (a
\* record deleted since the index was read is not dropped from the list).
C15_ListAllOneEntryPerIndexKey ==
  [][\A p \in Procs :
       /\ (pc[p] = "smembers" /\ pc'[p] # "smembers")
          => IF index = {}
             THEN /\ pc'[p] = "idle"
                  /\ last'.op = "ListAll" /\ last'.status = 200
                  /\ last'.body = ListBody(<<>>)
             ELSE /\ pc'[p] = "mget"
                  /\ Len(loc'[p].keys) = Cardinality(index)
                  /\ {loc'[p].keys[i] : i \in 1..Len(loc'[p].keys)} = index
       /\ (pc[p] = "mget" /\ pc'[p] # "mget")
          => LET keys == loc[p].keys
             IN /\ pc'[p] = "idle"
                /\ last'.op = "ListAll" /\ last'.status = 200
                /\ last'.keys = keys
                /\ Len(last'.body.list) = Len(keys)
                /\ \A i \in 1..Len(keys) :
                     last'.body.list[i] =
                       IF keys[i] \in DOMAIN store
                       THEN store[keys[i]] ELSE NullRec]_vars

\* A list of two entries, one a record and one null: its key was in the
\* index when smembers ran and had no record when mget ran.
C15_Witness ==
  /\ last.op = "ListAll" /\ last.status = 200
  /\ Len(last.keys) = 2 /\ Len(last.body.list) = 2
  /\ \E i, j \in 1..2 :
       /\ last.body.list[i] = NullRec
       /\ last.body.list[j] # NullRec
       /\ last.keys[i] \notin DOMAIN store

\* C16: kv.exists reserves nothing.  A Create that finds no record under
\* its key goes on to its multi whatever other Creates are in flight for the
\* same key; the Creates waiting on their multi hold different ids; and
\* every multi that runs is answered 201 with the id its own request
\* generated, also when a record is already stored under the key.
C16_ExistsCheckReservesNothing ==
  [][/\ \A p \in Procs :
          /\ (/\ pc[p] = "exists" /\ pc'[p] # "exists"
              /\ loc[p].key \notin DOMAIN store)
             => pc'[p] = "exec" /\ loc'[p].rec.id.t = "str"
          /\ (pc[p] = "exec" /\ pc'[p] # "exec")
             => /\ last'.op = "Create" /\ last'.status = 201
                /\ last'.body.id = loc[p].rec.id
                /\ store'[loc[p].key].id = loc[p].rec.id
     /\ \A p, q \in Procs :
          (p # q /\ pc'[p] = "exec" /\ pc'[q] = "exec")
          => loc'[p].rec.id # loc'[q].rec.id]_vars

\* One Create was just answered 201 for a code while another Create for the
\* same code, holding another id, has passed its check and waits on its
\* multi.
C16_Witness ==
  /\ last.op = "Create" /\ last.status = 201
  /\ Key(last.cod) \in DOMAIN store
  /\ \E p \in Procs :
       /\ pc[p] = "exec"
       /\ loc[p].key = Key(last.cod)
       /\ loc[p].rec.id # last.body.id

\* C17: under every interleaving, no step of a GetOne or of a ListAll (its
\* arrival included) changes the Record Store or the Index Set, and
\* GetOne's answer is a function of the Record Store entry under prefix +
\* code alone: 200 with that record when there is one, 404 when there is
\* none, whether or not the key is in the Index Set.
C17_ReadsChangeNothing ==
  [][\A p \in Procs :
       /\ (/\ pc'[p] # pc[p]
           /\ \/ req[p].op \in {"GetOne", "ListAll"}
              \/ req'[p].op \in {"GetOne", "ListAll"})
          => store' = store /\ index' = index
       /\ (pc[p] = "get" /\ pc'[p] # "get")
          => LET k == Key(req[p].cod)
             IN /\ last'.op = "GetOne" /\ last'.cod = req[p].cod
                /\ IF k \in DOMAIN store
                   THEN last'.status = 200 /\ last'.body = store[k]
                   ELSE last'.status = 404]_vars

\* A GetOne answered 200 with a record whose key is not in the Index Set.
C17_Witness ==
  /\ last.op = "GetOne" /\ last.status = 200
  /\ Key(last.cod) \in DOMAIN store
  /\ Key(last.cod) \notin index
  /\ last.body = store[Key(last.cod)]

\* C18: under every interleaving, in every reachable state every key of
\* the Index Set has a record in the Record Store.
C18_IndexedKeysHaveRecords == index \subseteq DOMAIN store

\* The converse is broken (a record whose key the index lacks) while the
\* index still names another key, which has its record.
C18_Witness ==
  /\ index # {}
  /\ index \subseteq DOMAIN store
  /\ \E k \in DOMAIN store : k \notin index

\* C19: under every interleaving, a Delete is answered 204 exactly when
\* its multi removed a record (one was stored under its key when the multi
\* ran) and 404 otherwise, and after its multi the key has no record.  So
\* of the Deletes of one code that overlap with no write to its key, the
\* first multi to run is answered 204 if the record existed and every later
\* one is answered 404.
C19_DeleteReports204IffRemoved ==
  [][\A p \in Procs :
       (pc[p] = "del_exec" /\ pc'[p] # "del_exec")
       => LET k == loc[p].key
          IN /\ k = Key(req[p].cod)
             /\ last'.op = "Delete" /\ last'.cod = req[p].cod
             /\ last'.status = IF k \in DOMAIN store THEN 204 ELSE 404
             /\ k \notin DOMAIN store'
             /\ k \notin index']_vars

\* One Delete was just answered 204 while another Delete of the same code
\* is still waiting on its multi.
C19_Witness ==
  /\ last.op = "Delete" /\ last.status = 204
  /\ Key(last.cod) \notin DOMAIN store
  /\ \E p \in Procs :
       pc[p] = "del_exec" /\ req[p].op = "Delete" /\ req[p].cod = last.cod

\* The entries of a list body, as a set.
Entries(l) == {l[i] : i \in 1..Len(l)}

====
